---- MODULE Spec2Model ----
(***************************************************************************)
(* A model of mt_metrics_eval/tasks.py: Task, TaskResults, TaskSet and     *)
(* TaskSetResults.                                                         *)
(*                                                                         *)
(* Python str values are sequences of one-character strings, so that       *)
(* str.split, str.replace and str.join are computed character by           *)
(* character.  Python values that the code formats with f'{...}' carry     *)
(* their type in the field t.  Floats that are only stored, compared and   *)
(* formatted are kept as their shortest decimal numeral; the weights and   *)
(* average ranks, which the code divides, multiplies and adds, are exact   *)
(* rationals (rounding is left out).                                       *)
(***************************************************************************)
EXTENDS Integers, Sequences, FiniteSets, TLC

VARIABLES
  pc,             \* position of the scenario under study
  args,           \* Task(...): the constructor arguments of the first Task
  task,           \* its outcome: the Task after __post_init__, or the error
  args2,          \* constructor arguments of a second Task
  task2,          \* its outcome
  attr_combs,     \* TaskSet(attr_combs): the mapping given to the constructor
  tasks,          \* TaskSet.tasks
  eval_set_dict,  \* TaskSet.eval_set_dict: the (test_set, lang) pairs loaded
  run,            \* the bookkeeping of one call of TaskSet.Run
  results,        \* TaskSetResults.results
  other,          \* the TaskResults that TaskResults.Read has filled
  call,           \* the last method call on the results: arguments, outcome
  file            \* the document TaskResults.Write left in the file

vars == <<pc, args, task, args2, task2, attr_combs, tasks, eval_set_dict, run,
          results, other, call, file>>

(***************************************************************************)
(* String literals of the source.                                          *)
(***************************************************************************)
AttrChars ==
  [test_set |-> <<"t","e","s","t","_","s","e","t">>,
   lang |-> <<"l","a","n","g">>,
   domain |-> <<"d","o","m","a","i","n">>,
   level |-> <<"l","e","v","e","l">>,
   human |-> <<"h","u","m","a","n">>,
   avg_by |-> <<"a","v","g","_","b","y">>,
   corr_fcn |-> <<"c","o","r","r","_","f","c","n">>,
   k |-> <<"k">>,
   gold |-> <<"g","o","l","d">>,
   refs |-> <<"r","e","f","s">>,
   close_refs |-> <<"c","l","o","s","e","_","r","e","f","s">>,
   use_outliers |-> <<"u","s","e","_","o","u","t","l","i","e","r","s">>,
   primary |-> <<"p","r","i","m","a","r","y">>,
   pval |-> <<"p","v","a","l">>,
   block_size |-> <<"b","l","o","c","k","_","s","i","z","e">>,
   early_min |-> <<"e","a","r","l","y","_","m","i","n">>,
   early_max |-> <<"e","a","r","l","y","_","m","a","x">>,
   replace_nans_with_zeros |-> <<"r","e","p","l","a","c","e","_","n","a","n","s","_","w","i","t","h","_","z","e","r","o","s">>,
   perm_test |-> <<"p","e","r","m","_","t","e","s","t">>,
   corr_fcn_args |-> <<"c","o","r","r","_","f","c","n","_","a","r","g","s">>]

Lit ==
  [wmt22 |-> <<"w","m","t","2","2">>,
   en_de |-> <<"e","n","-","d","e">>,
   sys |-> <<"s","y","s">>,
   none |-> <<"n","o","n","e">>,
   pearson |-> <<"p","e","a","r","s","o","n">>,
   scores |-> <<"s","c","o","r","e","s">>,
   accuracy |-> <<"a","c","c","u","r","a","c","y">>,
   kendall |-> <<"k","e","n","d","a","l","l">>,
   spearman |-> <<"s","p","e","a","r","m","a","n">>,
   KendallLike |-> <<"K","e","n","d","a","l","l","L","i","k","e">>,
   KendallVariants |-> <<"K","e","n","d","a","l","l","V","a","r","i","a","n","t","s">>,
   KendallWithTiesOpt |-> <<"K","e","n","d","a","l","l","W","i","t","h","T","i","e","s","O","p","t">>,
   None |-> <<"N","o","n","e">>,
   True |-> <<"T","r","u","e">>,
   False |-> <<"F","a","l","s","e">>,
   emptyset |-> <<"s","e","t","(",")">>]

(* Values the scenarios draw their inputs from: language pairs, levels,    *)
(* label names, domains, correlation-function arguments, metric names.     *)
In ==
  [zh_en |-> <<"z","h","-","e","n">>,
   en_de_zh_en |-> <<"e","n","-","d","e",",","z","h","-","e","n">>,
   xx_yy |-> <<"x","x","-","y","y">>,
   seg |-> <<"s","e","g">>,
   doc |-> <<"d","o","c">>,
   mqm |-> <<"m","q","m">>,
   refA |-> <<"r","e","f","A">>,
   wmt00 |-> <<"w","m","t","0","0">>,
   bogus |-> <<"b","o","g","u","s">>,
   news |-> <<"n","e","w","s">>,
   a_eq_b |-> <<"a","=","b">>,
   variant |-> <<"v","a","r","i","a","n","t">>,
   epsilon |-> <<"e","p","s","i","l","o","n">>,
   sample_rate |-> <<"s","a","m","p","l","e","_","r","a","t","e">>,
   acc23 |-> <<"a","c","c","2","3">>,
   v23 |-> <<"2","3">>,
   BLEU |-> <<"B","L","E","U">>,
   chrF |-> <<"c","h","r","F">>,
   COMET |-> <<"C","O","M","E","T">>]

(***************************************************************************)
(* Python built-ins the code uses.                                         *)
(***************************************************************************)
\* The characters of the model in code-point order.
Ascii ==
  <<" ", "'", "(", ")", ",", "-", ".", "0", "1", "2", "3", "4", "5", "6", "7",
    "8", "9", ":", "=", "A", "B", "C", "D", "E", "F", "G", "H", "I", "J", "K",
    "L", "M", "N", "O", "P", "Q", "R", "S", "T", "U", "V", "W", "X", "Y", "Z",
    "[", "]", "_", "a", "b", "c", "d", "e", "f", "g", "h", "i", "j", "k", "l",
    "m", "n", "o", "p", "q", "r", "s", "t", "u", "v", "w", "x", "y", "z", "{",
    "}">>

ord(c) == CHOOSE i \in 1..Len(Ascii) : Ascii[i] = c

\* s1 < s2 on str: lexicographic by code point.
RECURSIVE StrLt(_, _)
StrLt(s1, s2) ==
  IF s2 = <<>> THEN FALSE
  ELSE IF s1 = <<>> THEN TRUE
  ELSE IF s1[1] = s2[1] THEN StrLt(Tail(s1), Tail(s2))
  ELSE ord(s1[1]) < ord(s2[1])

\* The characters str.split() with no argument treats as separators.
Whitespace == {" ", "\t", "\n"}

\* The pieces of s between the characters of seps, empty pieces included.
SplitAt(s, seps) ==
  LET pos == {i \in 1..Len(s) : s[i] \in seps}
      n == Cardinality(pos)
      \* the index of the j-th separator; 0 and Len(s) + 1 bracket the string
      nth(j) == IF j = 0 THEN 0
                ELSE IF j = n + 1 THEN Len(s) + 1
                ELSE CHOOSE p \in pos : Cardinality({q \in pos : q < p}) = j - 1
  IN [j \in 1..(n + 1) |-> SubSeq(s, nth(j - 1) + 1, nth(j) - 1)]

\* s.split(sep) for a one-character sep.
Split(s, sep) == SplitAt(s, {sep})

\* s.split(): split at runs of whitespace, no empty pieces.
SplitWhitespace(s) == SelectSeq(SplitAt(s, Whitespace), LAMBDA p : p # <<>>)

\* s.replace(old, '') for a one-character old.
Remove(s, old) == SelectSeq(s, LAMBDA c : c # old)

\* sep.join(parts)
RECURSIVE Join(_, _)
Join(parts, sep) ==
  IF parts = <<>> THEN <<>>
  ELSE IF Len(parts) = 1 THEN parts[1]
  ELSE parts[1] \o sep \o Join(Tail(parts), sep)

\* Python values, tagged with their type.
None == [t |-> "NoneType"]
PyStr(s) == [t |-> "str", v |-> s]
PyBool(b) == [t |-> "bool", v |-> b]
PyInt(n) == [t |-> "int", v |-> n]
\* A float, by the digits of its shortest decimal numeral: whole.frac
PyFloat(whole, frac) == [t |-> "float", v |-> <<whole, frac>>]
PyList(items) == [t |-> "list", v |-> items]
PySet(items) == [t |-> "set", v |-> items]
\* A dict is the sequence of its <<key, value>> items in insertion order.
PyDict(items) == [t |-> "dict", v |-> items]

\* The decimal digits of a natural number.
RECURSIVE Digits(_)
Digits(n) ==
  IF n < 10 THEN <<Ascii[ord("0") + n]>>
  ELSE Digits(n \div 10) \o <<Ascii[ord("0") + (n % 10)]>>

\* The elements of a set in the order its iteration yields them (one fixed
\* order per set).
RECURSIVE SetItems(_)
SetItems(S) ==
  IF S = {} THEN <<>>
  ELSE LET x == CHOOSE y \in S : TRUE IN <<x>> \o SetItems(S \ {x})

\* str(v), which is what f'{v}' yields, and repr(v), which str() of a
\* container applies to its elements.
RECURSIVE Format(_), Repr(_)
Format(v) ==
  CASE v.t = "NoneType" -> Lit.None
    [] v.t = "str" -> v.v
    [] v.t = "bool" -> IF v.v THEN Lit.True ELSE Lit.False
    [] v.t = "int" -> Digits(v.v)
    [] v.t = "float" -> Digits(v.v[1]) \o <<".">> \o v.v[2]
    [] v.t = "list" ->
         <<"[">> \o Join([i \in 1..Len(v.v) |-> Repr(v.v[i])], <<",", " ">>)
                 \o <<"]">>
    [] v.t = "set" ->
         IF v.v = {} THEN Lit.emptyset
         ELSE LET items == SetItems(v.v) IN
              <<"{">> \o Join([i \in 1..Len(items) |-> Repr(items[i])],
                              <<",", " ">>) \o <<"}">>
    [] v.t = "dict" ->
         <<"{">> \o Join([i \in 1..Len(v.v) |->
                            Repr(v.v[i][1]) \o <<":", " ">> \o Repr(v.v[i][2])],
                         <<",", " ">>) \o <<"}">>
Repr(v) == IF v.t = "str" THEN <<"'">> \o v.v \o <<"'">> ELSE Format(v)

\* len(v)
PyLen(v) == IF v.t = "set" THEN Cardinality(v.v) ELSE Len(v.v)

\* An operation either returns a value or raises.
Return(v) == [ok |-> TRUE, v |-> v]
Raise(e) == [ok |-> FALSE, exc |-> e]

(***************************************************************************)
(* Task                                                                    *)
(***************************************************************************)
CORRELATION_FUNCTIONS ==
  {Lit.pearson, Lit.kendall, Lit.spearman, Lit.accuracy, Lit.KendallLike,
   Lit.KendallVariants, Lit.KendallWithTiesOpt}

\* Task.__annotations__.keys(): the fields in declaration order.
Attributes ==
  <<"test_set", "lang", "domain", "level", "human", "avg_by", "corr_fcn", "k",
    "gold", "refs", "close_refs", "use_outliers", "primary", "pval",
    "block_size", "early_min", "early_max", "replace_nans_with_zeros",
    "perm_test", "corr_fcn_args">>

\* The defaults of the dataclass fields.
TaskDefaults ==
  [test_set |-> PyStr(Lit.wmt22), lang |-> PyStr(Lit.en_de), domain |-> None,
   level |-> PyStr(Lit.sys), human |-> PyBool(TRUE), avg_by |-> PyStr(Lit.none),
   corr_fcn |-> PyStr(Lit.pearson), k |-> PyInt(1000), gold |-> None,
   refs |-> None, close_refs |-> None, use_outliers |-> PyBool(FALSE),
   primary |-> PyBool(TRUE), pval |-> PyFloat(0, <<"0", "5">>),
   block_size |-> PyInt(100), early_min |-> PyFloat(0, <<"0", "2">>),
   early_max |-> PyFloat(0, <<"5">>),
   replace_nans_with_zeros |-> PyBool(FALSE), perm_test |-> PyStr(Lit.scores),
   corr_fcn_args |-> None]

\* meta_info.DATA: test set -> language pair -> its standard gold labels per
\* level and its standard reference.
DATA ==
  Lit.wmt22 :>
    (Lit.en_de :> [std_gold |-> (Lit.sys :> In.mqm @@ In.seg :> In.mqm),
                   std_ref |-> In.refA]
     @@ In.zh_en :> [std_gold |-> (Lit.sys :> In.mqm @@ In.seg :> In.mqm),
                     std_ref |-> In.refA])

_StdGold(self, lang, level) == PyStr(DATA[self.test_set.v][lang].std_gold[level])

_StdRefs(self, lang) == PySet({PyStr(DATA[self.test_set.v][lang].std_ref)})

\* sorted(items): insertion of one item into a list sorted by key.
RECURSIVE InsertItem(_, _)
InsertItem(sorted, item) ==
  IF sorted = <<>> THEN <<item>>
  ELSE IF StrLt(item[1].v, sorted[1][1].v) THEN <<item>> \o sorted
  ELSE <<sorted[1]>> \o InsertItem(Tail(sorted), item)

\* sorted(d.items()) of a dict with str keys (keys are unique, so the values
\* are never compared).
RECURSIVE SortedItems(_)
SortedItems(items) ==
  IF items = <<>> THEN <<>>
  ELSE InsertItem(SortedItems(SubSeq(items, 1, Len(items) - 1)),
                  items[Len(items)])

\* CanonicalArgs as it would be without `dict(sorted(...))`: the caller's
\* insertion order is kept.
CanonicalArgsUnsorted(self) ==
  [self EXCEPT !.corr_fcn_args =
     IF self.corr_fcn_args = None THEN PyDict(<<>>) ELSE self.corr_fcn_args]

\* The tail of __post_init__: corr_fcn_args defaults to {} and is rebuilt in
\* key order.
CanonicalArgs(self) ==
  LET given == IF self.corr_fcn_args = None THEN PyDict(<<>>)
               ELSE self.corr_fcn_args
  IN [self EXCEPT !.corr_fcn_args = PyDict(SortedItems(given.v))]

\* The accuracy branch of __post_init__, lines 104-112: the fill-in of gold,
\* refs and close_refs and the three length checks.
AccuracyFillIn(self, sub_langs) ==
    LET n == Len(sub_langs)
        gold == IF self.gold = None
                THEN PyList([i \in 1..n |-> _StdGold(self, sub_langs[i], self.level.v)])
                ELSE self.gold
        refs == IF self.refs = None
                THEN PyList([i \in 1..n |-> _StdRefs(self, sub_langs[i])])
                ELSE self.refs
        close_refs == IF self.close_refs = None
                      THEN PyList([i \in 1..n |-> PySet({})])
                      ELSE self.close_refs
    IN IF PyLen(gold) # n \/ PyLen(refs) # n \/ PyLen(close_refs) # n
       THEN Raise("AssertionError")
       ELSE Return(CanonicalArgs([self EXCEPT !.gold = gold, !.refs = refs,
                                              !.close_refs = close_refs]))

\* PostInitAccuracy as it would be with the standard branch's check of the
\* level (known to every language pair) in place of `level == 'sys'`.
PostInitAccuracyAnyLevel(self, sub_langs) ==
  IF \E i \in 1..Len(sub_langs) : sub_langs[i] \notin DOMAIN DATA[self.test_set.v]
  THEN Raise("AssertionError")
  ELSE IF \E i \in 1..Len(sub_langs) :
            self.level.v \notin DOMAIN DATA[self.test_set.v][sub_langs[i]].std_gold
  THEN Raise("AssertionError")
  ELSE AccuracyFillIn(self, sub_langs)

\* __post_init__, accuracy branch.
PostInitAccuracy(self, sub_langs) ==
  IF self.level.v # Lit.sys THEN Raise("AssertionError")
  ELSE IF \E i \in 1..Len(sub_langs) : sub_langs[i] \notin DOMAIN DATA[self.test_set.v]
  THEN Raise("AssertionError")
  ELSE AccuracyFillIn(self, sub_langs)

\* __post_init__, standard branch.
PostInitStandard(self, sub_langs) ==
  IF Len(sub_langs) # 1 THEN Raise("AssertionError")
  ELSE IF self.lang.v \notin DOMAIN DATA[self.test_set.v]
  THEN Raise("AssertionError")
  ELSE IF self.level.v \notin DOMAIN DATA[self.test_set.v][self.lang.v].std_gold
  THEN Raise("AssertionError")
  ELSE
    LET gold == IF self.gold = None
                THEN _StdGold(self, self.lang.v, self.level.v) ELSE self.gold
        refs == IF self.refs = None THEN _StdRefs(self, self.lang.v)
                ELSE self.refs
        close_refs == IF self.close_refs = None THEN PySet({})
                      ELSE self.close_refs
    IN IF gold.t # "str" \/ refs.t # "set" \/ close_refs.t # "set"
       THEN Raise("AssertionError")
       ELSE Return(CanonicalArgs([self EXCEPT !.gold = gold, !.refs = refs,
                                              !.close_refs = close_refs]))

\* Task(**fields): the dataclass stores the fields, then __post_init__ checks
\* them and fills in defaults.  Returns the Task or raises AssertionError.
__post_init__(self) ==
  IF self.test_set.v \notin DOMAIN DATA THEN Raise("AssertionError")
  ELSE IF self.corr_fcn.v \notin CORRELATION_FUNCTIONS
  THEN Raise("AssertionError")
  ELSE LET sub_langs == Split(self.lang.v, ",") IN
       IF self.corr_fcn.v = Lit.accuracy
       THEN PostInitAccuracy(self, sub_langs)
       ELSE PostInitStandard(self, sub_langs)

StrVal(self, attr) == Remove(Format(self[attr]), " ")

NamePairs(self, attrs) ==
  [i \in 1..Len(attrs) |-> AttrChars[attrs[i]] \o <<"=">> \o StrVal(self, attrs[i])]

name(self) == Join(NamePairs(self, Attributes), <<" ">>)

(***************************************************************************)
(* Scenario "Task": two Tasks are constructed, the second from the same    *)
(* arguments as the first except for gold (given or left to its default)   *)
(* and the insertion order of corr_fcn_args.                               *)
(***************************************************************************)
MaxCorrFcnArgs == 2

Unused == "-"

TestSets == {Lit.wmt22, In.wmt00}
Langs == {Lit.en_de, In.en_de_zh_en, In.xx_yy}
Levels == {Lit.sys, In.seg, In.doc}
CorrFcns == {Lit.pearson, Lit.accuracy, In.bogus}
Golds ==
  {None, PyStr(In.mqm), PyList(<<PyStr(In.mqm)>>),
   PyList(<<PyStr(In.mqm), PyStr(In.mqm)>>)}

\* The items a caller may put in corr_fcn_args.
ArgItems ==
  {<<PyStr(In.variant), PyStr(In.acc23)>>, <<PyStr(In.variant), PyStr(In.v23)>>,
   <<PyStr(In.sample_rate), PyFloat(1, <<"0">>)>>,
   <<PyStr(In.epsilon), PyInt(0)>>}

\* dicts: sequences of items with pairwise different keys.
ItemSeqs(n) ==
  {s \in [1..n -> ArgItems] : \A i, j \in 1..n : i # j => s[i][1] # s[j][1]}

CorrFcnArgs ==
  {None} \cup {PyDict(s) : s \in UNION {ItemSeqs(n) : n \in 0..MaxCorrFcnArgs}}

\* The same dict built in another insertion order.
Reordered(d) ==
  IF d = None THEN {None}
  ELSE {PyDict(s) : s \in {q \in ItemSeqs(Len(d.v)) :
                             {q[i] : i \in 1..Len(q)} = {d.v[i] : i \in 1..Len(d.v)}}}

TaskInit ==
  /\ pc = "start"
  /\ args = Unused /\ task = Unused /\ args2 = Unused /\ task2 = Unused
  /\ attr_combs = Unused /\ tasks = Unused /\ eval_set_dict = Unused
  /\ run = Unused /\ results = Unused /\ other = Unused /\ call = Unused
  /\ file = Unused

\* t = Task(test_set=..., lang=..., level=..., corr_fcn=..., gold=...,
\*          corr_fcn_args=...)
Construct ==
  /\ pc = "start"
  /\ \E ts \in TestSets, lang \in Langs, level \in Levels, cf \in CorrFcns,
        gold \in Golds, cfa \in CorrFcnArgs :
       LET fields == [TaskDefaults EXCEPT !.test_set = PyStr(ts),
                        !.lang = PyStr(lang), !.level = PyStr(level),
                        !.corr_fcn = PyStr(cf), !.gold = gold,
                        !.corr_fcn_args = cfa]
       IN /\ args' = fields
          /\ task' = __post_init__(fields)
  /\ pc' = "one"
  /\ UNCHANGED <<args2, task2, attr_combs, tasks, eval_set_dict, run, results,
                 other, call, file>>

\* A second Task from the same arguments, gold given or not, corr_fcn_args
\* inserted in any order.
ConstructAgain ==
  /\ pc = "one"
  /\ task.ok
  /\ \E gold \in Golds, cfa \in Reordered(args.corr_fcn_args) :
       LET fields == [args EXCEPT !.gold = gold, !.corr_fcn_args = cfa]
       IN /\ args2' = fields
          /\ task2' = __post_init__(fields)
  /\ pc' = "two"
  /\ UNCHANGED <<args, task, attr_combs, tasks, eval_set_dict, run, results,
                 other, call, file>>

TaskNext == Construct \/ ConstructAgain

SpecTask == TaskInit /\ [][TaskNext]_vars

\* The fields of two Tasks agree, corr_fcn_args aside.
SameFields(t1, t2) ==
  \A i \in 1..Len(Attributes) :
    Attributes[i] # "corr_fcn_args" => t1[Attributes[i]] = t2[Attributes[i]]

\* Two corr_fcn_args arguments hold the same key/value pairs.
SameItems(d1, d2) ==
  IF d1 = None \/ d2 = None THEN d1 = d2
  ELSE {d1.v[i] : i \in 1..Len(d1.v)} = {d2.v[i] : i \in 1..Len(d2.v)}

\* The name of a Task consists of one attr=value piece per attribute, in the
\* order of the field declarations.
InDeclarationOrder(t) ==
  LET pieces == Split(name(t), " ") IN
  /\ Len(pieces) = Len(Attributes)
  /\ \A i \in 1..Len(Attributes) :
       pieces[i] = AttrChars[Attributes[i]] \o <<"=">> \o StrVal(t, Attributes[i])

\* C3: two Tasks whose fields are equal after the default fill-in and whose
\* corr_fcn_args were given with the same key/value pairs, in whatever
\* insertion order, have the same name; and a name lists its attr=value pairs
\* in the declaration order of the attributes.
C3_NameIgnoresArgOrder ==
  /\ (pc \in {"one", "two"} /\ task.ok) => InDeclarationOrder(task.v)
  /\ (pc = "two" /\ task2.ok /\ SameFields(task.v, task2.v)
        /\ SameItems(args.corr_fcn_args, args2.corr_fcn_args))
     => name(task.v) = name(task2.v)

\* Two Tasks built with gold once given and once defaulted, and with two
\* corr_fcn_args in different insertion orders, that agree after fill-in.
C3_Witness ==
  /\ pc = "two" /\ task2.ok
  /\ SameFields(task.v, task2.v)
  /\ args.gold # args2.gold
  /\ args.corr_fcn_args # None
  /\ Len(args.corr_fcn_args.v) = 2
  /\ SameItems(args.corr_fcn_args, args2.corr_fcn_args)
  /\ args.corr_fcn_args # args2.corr_fcn_args
  /\ args.corr_fcn_args # task.v.corr_fcn_args

\* The lang field names exactly one language pair.
OnePair(fields) == Len(Split(fields.lang.v, ",")) = 1

\* C5 as stated: in accuracy mode construction fails whenever lang names
\* exactly one language pair, and whenever level is not 'sys'.
C5_AccuracyRejectsOnePairOrNonSys ==
  (pc = "one" /\ args.corr_fcn.v = Lit.accuracy
     /\ (OnePair(args) \/ args.level.v # Lit.sys))
  => ~task.ok

\* C5 as amended: in accuracy mode construction fails whenever level is not
\* 'sys'; a lang field naming exactly one language pair is accepted when the
\* pair is known, level is 'sys' and gold, refs and close_refs are unset or
\* one-element lists, and the three fields are then one-element lists.
C5_AccuracyRejectsNonSys ==
  (pc = "one" /\ args.corr_fcn.v = Lit.accuracy)
  => /\ args.level.v # Lit.sys => ~task.ok
     /\ (/\ args.level.v = Lit.sys
         /\ OnePair(args)
         /\ args.test_set.v \in DOMAIN DATA
         /\ args.lang.v \in DOMAIN DATA[args.test_set.v]
         /\ args.gold = None \/ (args.gold.t = "list" /\ Len(args.gold.v) = 1))
        => /\ task.ok
           /\ task.v.gold.t = "list" /\ Len(task.v.gold.v) = 1
           /\ task.v.refs.t = "list" /\ Len(task.v.refs.v) = 1
           /\ task.v.close_refs.t = "list" /\ Len(task.v.close_refs.v) = 1

\* An accuracy-mode construction over known language pairs that fails only
\* for its level.
C5_Witness ==
  /\ pc = "one" /\ args.corr_fcn.v = Lit.accuracy
  /\ args.test_set.v \in DOMAIN DATA
  /\ args.lang.v = In.en_de_zh_en
  /\ args.gold = None
  /\ args.level.v = In.seg
  /\ ~task.ok

(***************************************************************************)
(* TaskSet                                                                 *)
(***************************************************************************)
\* Each x of xs followed by each tuple of rest, x-major.
RECURSIVE Prefixed(_, _)
Prefixed(xs, rest) ==
  IF xs = <<>> THEN <<>>
  ELSE [i \in 1..Len(rest) |-> <<xs[1]>> \o rest[i]] \o Prefixed(Tail(xs), rest)

\* Each tuple of init followed by each x of xs, x-major.
RECURSIVE Suffixed(_, _)
Suffixed(xs, init) ==
  IF xs = <<>> THEN <<>>
  ELSE [i \in 1..Len(init) |-> init[i] \o <<xs[1]>>] \o Suffixed(Tail(xs), init)

\* product as it would be with the first list varying fastest.
RECURSIVE productFirstFastest(_)
productFirstFastest(lists) ==
  IF lists = <<>> THEN << <<>> >>
  ELSE Suffixed(lists[Len(lists)],
                productFirstFastest(SubSeq(lists, 1, Len(lists) - 1)))

\* itertools.product(*lists): the tuples in odometer order, the last list
\* varying fastest; one empty tuple for no lists.
RECURSIVE product(_)
product(lists) ==
  IF lists = <<>> THEN << <<>> >>
  ELSE Prefixed(lists[1], product(Tail(lists)))

\* Task(**comb, **attrs): comb is dict(zip(keys, vals)), attrs the fixed
\* keyword arguments.  A keyword given twice is a TypeError.
TaskOf(keys, vals, attrs) ==
  IF \E i \in 1..Len(keys), j \in 1..Len(attrs) : keys[i] = attrs[j][1]
  THEN Raise("TypeError")
  ELSE __post_init__(
         [a \in DOMAIN TaskDefaults |->
            IF \E i \in 1..Len(keys) : keys[i] = a
            THEN vals[CHOOSE i \in 1..Len(keys) : keys[i] = a]
            ELSE IF \E j \in 1..Len(attrs) : attrs[j][1] = a
            THEN attrs[CHOOSE j \in 1..Len(attrs) : attrs[j][1] = a][2]
            ELSE TaskDefaults[a]])

\* TaskSet(attr_combs, **attrs).  attr_combs is None or a dict whose items are
\* <<attribute, list of values>>.  Returns the new TaskSet or raises what the
\* first failing Task(...) raises.
TaskSet(attr_combs_, attrs) ==
  IF attr_combs_ = None \/ attr_combs_.v = <<>>
  THEN Return([tasks |-> <<>>, eval_set_dict |-> <<>>])
  ELSE LET combs == attr_combs_.v
           keys == [i \in 1..Len(combs) |-> combs[i][1]]
           all == product([i \in 1..Len(combs) |-> combs[i][2]])
           built == [p \in 1..Len(all) |-> TaskOf(keys, all[p], attrs)]
       IN IF \E p \in 1..Len(all) : ~built[p].ok
          THEN Raise(built[CHOOSE p \in 1..Len(all) :
                             /\ ~built[p].ok
                             /\ \A q \in 1..(p - 1) : built[q].ok].exc)
          ELSE Return([tasks |-> [p \in 1..Len(all) |-> built[p].v],
                       eval_set_dict |-> <<>>])

\* TaskSet.__add__
TaskSetAdd(self, oth) ==
  [tasks |-> self.tasks \o oth.tasks,
   eval_set_dict |-> oth.eval_set_dict @@ self.eval_set_dict]

(***************************************************************************)
(* Scenario "TaskSet": a TaskSet is constructed from attr_combs, then      *)
(* grown with Append and +.                                                *)
(***************************************************************************)
MaxKeys == 2
MaxTasks == 4

\* The value lists a caller may give for an attribute.
ValueLists ==
  [lang |-> {<<>>, <<PyStr(Lit.en_de)>>, <<PyStr(Lit.en_de), PyStr(In.zh_en)>>,
             <<PyStr(Lit.en_de), PyStr(Lit.en_de)>>,
             <<PyStr(In.zh_en), PyStr(In.xx_yy)>>},
   level |-> {<<PyStr(Lit.sys)>>, <<PyStr(In.seg), PyStr(Lit.sys)>>},
   domain |-> {<<PyStr(In.news)>>, <<None, PyStr(In.news)>>}]

\* The <<attribute, list>> items a caller may give.
CombItems == UNION {{<<a, l>> : l \in ValueLists[a]} : a \in DOMAIN ValueLists}

\* Sequences of n items over pairwise different attributes.
CombSeqs(n) ==
  {c \in [1..n -> CombItems] : \A i, j \in 1..n : i # j => c[i][1] # c[j][1]}

\* The dicts of at most MaxKeys attributes, in every insertion order.
AttrCombs == {PyDict(c) : c \in UNION {CombSeqs(n) : n \in 0..MaxKeys}}

\* The fixed keyword arguments a caller may give.
FixedAttrs ==
  {<<>>, << <<"corr_fcn", PyStr(Lit.accuracy)>> >>, << <<"level", PyStr(Lit.sys)>> >>}

\* Tasks a caller may append.
AppendedTasks ==
  {__post_init__(TaskDefaults).v,
   __post_init__([TaskDefaults EXCEPT !.lang = PyStr(In.en_de_zh_en),
                                      !.corr_fcn = PyStr(Lit.accuracy)]).v}

TaskSetInit ==
  /\ pc = "start"
  /\ args = Unused /\ task = Unused /\ args2 = Unused /\ task2 = Unused
  /\ attr_combs = Unused /\ tasks = Unused /\ eval_set_dict = Unused
  /\ run = Unused /\ results = Unused /\ other = Unused /\ call = Unused
  /\ file = Unused

\* ts = TaskSet(attr_combs, **attrs)
NewTaskSet ==
  /\ pc = "start"
  /\ \E combs \in AttrCombs \cup {None}, attrs \in FixedAttrs :
       LET ts == TaskSet(combs, attrs) IN
       /\ attr_combs' = [combs |-> combs, attrs |-> attrs]
       /\ IF ts.ok
          THEN /\ tasks' = ts.v.tasks
               /\ eval_set_dict' = ts.v.eval_set_dict
               /\ pc' = "built"
          ELSE /\ pc' = "raised"
               /\ UNCHANGED <<tasks, eval_set_dict>>
  /\ UNCHANGED <<args, task, args2, task2, run, results, other, call, file>>

\* ts.Append(task)
TaskSetAppend ==
  /\ pc \in {"built", "grown"}
  /\ Len(tasks) < MaxTasks
  /\ \E t \in AppendedTasks : tasks' = Append(tasks, t)
  /\ pc' = "grown"
  /\ UNCHANGED <<args, task, args2, task2, attr_combs, eval_set_dict, run,
                 results, other, call, file>>

\* ts = ts + ts
TaskSetAddSelf ==
  /\ pc \in {"built", "grown"}
  /\ tasks # <<>>
  /\ 2 * Len(tasks) <= MaxTasks
  /\ LET self == [tasks |-> tasks, eval_set_dict |-> eval_set_dict]
         sum == TaskSetAdd(self, self)
     IN /\ tasks' = sum.tasks
        /\ eval_set_dict' = sum.eval_set_dict
  /\ pc' = "grown"
  /\ UNCHANGED <<args, task, args2, task2, attr_combs, run, results, other,
                 call, file>>

TaskSetNext == NewTaskSet \/ TaskSetAppend \/ TaskSetAddSelf

SpecTaskSet == TaskSetInit /\ [][TaskSetNext]_vars

\* The product of the lengths of the value lists.
RECURSIVE LenProduct(_)
LenProduct(combs) ==
  IF combs = <<>> THEN 1 ELSE Len(combs[1][2]) * LenProduct(Tail(combs))

\* The p-th combination (p from 1) in cartesian-product order, by mixed-radix
\* arithmetic: the value of key i is the digit of p - 1 whose weight is the
\* product of the lengths of the lists after it.
Combination(combs, p) ==
  [i \in 1..Len(combs) |->
     combs[i][2][(((p - 1) \div LenProduct(SubSeq(combs, i + 1, Len(combs))))
                  % Len(combs[i][2])) + 1]]

\* The first part of C4, shared by the claim as stated and as amended: the
\* number of tasks, their order, and zero tasks for no mapping.
ProductTasks ==
  pc = "built" =>
    IF attr_combs.combs = None \/ attr_combs.combs.v = <<>> THEN tasks = <<>>
    ELSE LET combs == attr_combs.combs.v IN
         /\ Len(tasks) = LenProduct(combs)
         /\ \A p \in 1..Len(tasks) :
              tasks[p] = TaskOf([i \in 1..Len(combs) |-> combs[i][1]],
                                Combination(combs, p), attr_combs.attrs).v

NoRepeats(list) == \A i, j \in 1..Len(list) : i # j => list[i] # list[j]

\* C4 as stated: n1*...*nk tasks in cartesian-product order, each task built
\* from a combination of values that no other task has; zero tasks for an
\* empty or absent mapping.
C4_DistinctCombinations ==
  /\ ProductTasks
  /\ (pc = "built" /\ attr_combs.combs # None) =>
       \A p, q \in 1..Len(tasks) :
         p # q => Combination(attr_combs.combs.v, p) # Combination(attr_combs.combs.v, q)

\* C4 as amended: n1*...*nk tasks in cartesian-product order, zero tasks for
\* an empty or absent mapping; the combinations are pairwise distinct when no
\* list repeats a value (a repeated value yields repeated tasks).
C4_ProductOfLists ==
  /\ ProductTasks
  /\ (pc = "built" /\ attr_combs.combs # None
        /\ \A i \in 1..Len(attr_combs.combs.v) : NoRepeats(attr_combs.combs.v[i][2]))
     => \A p, q \in 1..Len(tasks) :
          p # q => /\ Combination(attr_combs.combs.v, p) # Combination(attr_combs.combs.v, q)
                   /\ tasks[p] # tasks[q]

\* A TaskSet built from two lists of two values each: four distinct tasks.
C4_Witness ==
  /\ pc = "built"
  /\ attr_combs.combs # None
  /\ Len(attr_combs.combs.v) = 2
  /\ \A i \in 1..2 : /\ Len(attr_combs.combs.v[i][2]) = 2
                     /\ NoRepeats(attr_combs.combs.v[i][2])
  /\ Len(tasks) = 4

(***************************************************************************)
(* TaskResults, Task.Run and TaskSet.Run.  The backend (data.EvalSet,      *)
(* data.GetCorrelations, data.CompareMetrics) is outside the module: a     *)
(* call of it returns or raises, as the scenario chooses.                  *)
(***************************************************************************)
PyTuple(items) == [t |-> "tuple", v |-> items]
NdArray(rows) == [t |-> "ndarray", v |-> rows]

\* TaskResults(task, compare_metrics_results), the branch for a given task.
TaskResults(task_, compare_metrics_results) ==
  [name |-> name(task_), pval |-> task_.pval,
   corr_ranks |-> compare_metrics_results[1],
   matrix |-> compare_metrics_results[2]]

\* What data.CompareMetrics returns for a Task: the map from metric to
\* (correlation, rank), by descending correlation, and the p-value matrix.
CompareMetricsResults ==
  <<PyDict(<< <<PyStr(In.BLEU), PyTuple(<<PyFloat(0, <<"9">>), PyInt(1)>>)>>,
              <<PyStr(In.chrF), PyTuple(<<PyFloat(0, <<"8">>), PyInt(2)>>)>> >>),
    NdArray(<< <<PyFloat(0, <<"0">>), PyFloat(0, <<"0", "1">>)>>,
               <<PyFloat(0, <<"0">>), PyFloat(0, <<"0">>)>> >>)>>

\* data.EvalSet(test_set, lp, True): a handle on the loaded evaluation set.
EvalSet(test_set, lp) == [test_set |-> test_set, lang |-> lp]

\* A call of the backend, as logged: by whom, what, and whether it returned.
LoadEvent(by, key, ok) == [op |-> "EvalSet", by |-> by, key |-> key, ok |-> ok]
CompareEvent(handles, ok) ==
  [op |-> "CompareMetrics", by |-> "task", handles |-> handles, ok |-> ok]

\* _Evs as it would be if it ignored eval_set_dict and always loaded.
_EvsAlwaysLoad(self, eval_set_dict_, lp) ==
  [loaded |-> TRUE, found |-> TRUE, handle |-> EvalSet(self.test_set.v, lp)]

\* Task.Run._Evs(lp): the handle for lp, loaded when no eval_set_dict is given
\* and looked up in it otherwise (a KeyError when it is not there).
_Evs(self, eval_set_dict_, lp) ==
  IF eval_set_dict_ = None
  THEN [loaded |-> TRUE, found |-> TRUE, handle |-> EvalSet(self.test_set.v, lp)]
  ELSE IF <<self.test_set.v, lp>> \in DOMAIN eval_set_dict_.v
  THEN [loaded |-> FALSE, found |-> TRUE,
        handle |-> eval_set_dict_.v[<<self.test_set.v, lp>>]]
  ELSE [loaded |-> FALSE, found |-> FALSE, handle |-> None]

\* Task.Run(eval_set_dict).  fails is the 1-based number of the backend call
\* that raises (0: none does): the loads of _Evs come first, in the order of
\* the language pairs, then the comparison.  Yields the events of the backend
\* calls made and what Run returns or raises.
Task_Run(self, eval_set_dict_, fails) ==
  LET lps == IF self.corr_fcn.v = Lit.accuracy THEN Split(self.lang.v, ",")
             ELSE <<self.lang.v>>
      evs == [i \in 1..Len(lps) |-> _Evs(self, eval_set_dict_, lps[i])]
      \* the events of the loads _Evs makes, up to the first that raises
      loadIdx == SelectSeq([i \in 1..Len(lps) |-> i], LAMBDA i : evs[i].loaded)
      loads == [n \in 1..Len(loadIdx) |->
                  LoadEvent("task", <<self.test_set.v, lps[loadIdx[n]]>>, n # fails)]
      missing == {i \in 1..Len(lps) : ~evs[i].found}
      firstMissing == CHOOSE i \in missing : \A k \in missing : i <= k
      loadsBefore(i) == Len(SelectSeq(loadIdx, LAMBDA k : k < i))
  IN IF fails \in 1..Len(loads)
       /\ (missing = {} \/ fails <= loadsBefore(firstMissing))
     THEN [events |-> SubSeq(loads, 1, fails), ret |-> Raise("BackendError")]
     ELSE IF missing # {}
     THEN [events |-> SubSeq(loads, 1, loadsBefore(firstMissing)),
           ret |-> Raise("KeyError")]
     ELSE LET handles == [i \in 1..Len(lps) |-> evs[i].handle] IN
          IF fails = Len(loads) + 1
          THEN [events |-> Append(loads, CompareEvent(handles, FALSE)),
                ret |-> Raise("BackendError")]
          ELSE [events |-> Append(loads, CompareEvent(handles, TRUE)),
                ret |-> Return(TaskResults(self, CompareMetricsResults))]

\* The number of backend calls Task.Run makes when none raises.
BackendCalls(self, eval_set_dict_) ==
  Len(Task_Run(self, eval_set_dict_, 0).events)

\* The state of one call of TaskSet.Run: where it is (phase, task i, language
\* pair j), the list being built by the comprehension (out), what it returned
\* or raised (ret), and, for the properties, the backend calls it made (log),
\* the cache when it was called (cache0) and when its first task started
\* (started).
RunCalled(n, cache) ==
  [n |-> n, phase |-> "build", i |-> 1, j |-> 1, out |-> <<>>, ret |-> None,
   log |-> <<>>, cache0 |-> cache, started |-> None]

\* The next position of the two loops of _BuildEvalSetDict.
Advance(run_, nlangs) ==
  IF run_.j < nlangs THEN [run_ EXCEPT !.j = @ + 1]
  ELSE [run_ EXCEPT !.i = @ + 1, !.j = 1]

\* The list comprehension of Run after one task.Run as it would be if a
\* failed task were skipped.
AfterTaskSkipFailed(run_, r) ==
  IF r.ret.ok
  THEN [run_ EXCEPT !.out = Append(@, r.ret.v), !.i = @ + 1,
                    !.log = @ \o r.events]
  ELSE [run_ EXCEPT !.i = @ + 1, !.log = @ \o r.events]

\* The list comprehension of Run after one task.Run: the result joins the
\* list, or the exception leaves Run.
AfterTask(run_, r) ==
  IF r.ret.ok
  THEN [run_ EXCEPT !.out = Append(@, r.ret.v), !.i = @ + 1,
                    !.log = @ \o r.events]
  ELSE [run_ EXCEPT !.phase = "raised", !.ret = r.ret, !.log = @ \o r.events]

(***************************************************************************)
(* Scenario "Run": tasks are appended to an empty TaskSet, then Run is     *)
(* called, and called once more after it returned or raised.               *)
(***************************************************************************)
MaxRunTasks == 2

\* Tasks a caller may append before Run.
RunTasks ==
  AppendedTasks \cup {__post_init__([TaskDefaults EXCEPT !.lang = PyStr(In.zh_en)]).v}

\* ts = TaskSet()
RunInit ==
  /\ pc = "setup"
  /\ tasks = TaskSet(None, <<>>).v.tasks
  /\ eval_set_dict = TaskSet(None, <<>>).v.eval_set_dict
  /\ args = Unused /\ task = Unused /\ args2 = Unused /\ task2 = Unused
  /\ attr_combs = Unused /\ run = Unused /\ results = Unused /\ other = Unused
  /\ call = Unused /\ file = Unused

\* ts.Append(task)
RunAppend ==
  /\ pc = "setup"
  /\ Len(tasks) < MaxRunTasks
  /\ \E t \in RunTasks : tasks' = Append(tasks, t)
  /\ UNCHANGED <<pc, args, task, args2, task2, attr_combs, eval_set_dict, run,
                 results, other, call, file>>

\* ts.Run() is called: _BuildEvalSetDict starts.
RunCall ==
  /\ \/ pc = "setup" /\ run' = RunCalled(1, eval_set_dict)
     \/ pc = "returned" /\ run.n = 1 /\ run' = RunCalled(2, eval_set_dict)
  /\ pc' = "running"
  /\ UNCHANGED <<args, task, args2, task2, attr_combs, tasks, eval_set_dict,
                 results, other, call, file>>

\* The language pairs of the task _BuildEvalSetDict is at.
BuildLangs == Split(tasks[run.i].lang.v, ",")
BuildKey == <<tasks[run.i].test_set.v, BuildLangs[run.j]>>

\* _BuildEvalSetDict: the pair is in the cache already.
BuildSkip ==
  /\ pc = "running" /\ run.phase = "build" /\ run.i <= Len(tasks)
  /\ BuildKey \in DOMAIN eval_set_dict
  /\ run' = Advance(run, Len(BuildLangs))
  /\ UNCHANGED <<pc, args, task, args2, task2, attr_combs, tasks,
                 eval_set_dict, results, other, call, file>>

\* _BuildEvalSetDict: the pair is not in the cache, data.EvalSet returns.
BuildLoad ==
  /\ pc = "running" /\ run.phase = "build" /\ run.i <= Len(tasks)
  /\ BuildKey \notin DOMAIN eval_set_dict
  /\ eval_set_dict' = (BuildKey :> EvalSet(BuildKey[1], BuildKey[2])) @@ eval_set_dict
  /\ run' = [Advance(run, Len(BuildLangs)) EXCEPT
               !.log = Append(@, LoadEvent("build", BuildKey, TRUE))]
  /\ UNCHANGED <<pc, args, task, args2, task2, attr_combs, tasks, results,
                 other, call, file>>

\* _BuildEvalSetDict: the pair is not in the cache, data.EvalSet raises, and
\* the exception leaves Run.
BuildFail ==
  /\ pc = "running" /\ run.phase = "build" /\ run.i <= Len(tasks)
  /\ BuildKey \notin DOMAIN eval_set_dict
  /\ run' = [run EXCEPT !.phase = "raised", !.ret = Raise("BackendError"),
                        !.log = Append(@, LoadEvent("build", BuildKey, FALSE))]
  /\ pc' = "returned"
  /\ UNCHANGED <<args, task, args2, task2, attr_combs, tasks, eval_set_dict,
                 results, other, call, file>>

\* _BuildEvalSetDict returns; the list comprehension starts.
BuildDone ==
  /\ pc = "running" /\ run.phase = "build" /\ run.i > Len(tasks)
  /\ run' = [run EXCEPT !.phase = "tasks", !.i = 1, !.j = 1,
                        !.started = PyDict(eval_set_dict)]
  /\ UNCHANGED <<pc, args, task, args2, task2, attr_combs, tasks,
                 eval_set_dict, results, other, call, file>>

\* task.Run(self.eval_set_dict) for the next task of the comprehension.
RunTask ==
  /\ pc = "running" /\ run.phase = "tasks" /\ run.i <= Len(tasks)
  /\ \E fails \in 0..BackendCalls(tasks[run.i], PyDict(eval_set_dict)) :
       run' = AfterTask(run, Task_Run(tasks[run.i], PyDict(eval_set_dict), fails))
  /\ pc' = IF run'.phase = "raised" THEN "returned" ELSE "running"
  /\ UNCHANGED <<args, task, args2, task2, attr_combs, tasks, eval_set_dict,
                 results, other, call, file>>

\* return TaskSetResults([...])
RunReturn ==
  /\ pc = "running" /\ run.phase = "tasks" /\ run.i > Len(tasks)
  /\ run' = [run EXCEPT !.phase = "done", !.ret = Return(run.out)]
  /\ pc' = "returned"
  /\ UNCHANGED <<args, task, args2, task2, attr_combs, tasks, eval_set_dict,
                 results, other, call, file>>

RunNext ==
  \/ RunAppend \/ RunCall \/ BuildSkip \/ BuildLoad \/ BuildFail \/ BuildDone
  \/ RunTask \/ RunReturn

SpecRun == RunInit /\ [][RunNext]_vars

\* The (test set, language pair) keys the tasks of the set refer to.
Referenced ==
  UNION {{<<tasks[i].test_set.v, lp>> :
            lp \in {Split(tasks[i].lang.v, ",")[j] :
                      j \in 1..Len(Split(tasks[i].lang.v, ","))}} :
           i \in 1..Len(tasks)}

\* C7: when the first task of Run starts, the cache holds a handle for every
\* referenced (test set, language pair); from then on the cache is what it
\* was at that moment; data.EvalSet is called only by _BuildEvalSetDict, never
\* for a pair that was in the cache when Run was called or that this Run has
\* loaded already; and every comparison gets the handles the cache holds.
C7_CacheBuiltBeforeTasks ==
  pc \in {"running", "returned"} =>
    /\ run.started # None =>
         /\ Referenced \subseteq DOMAIN run.started.v
         /\ eval_set_dict = run.started.v
    /\ run.phase \in {"tasks", "done"} => run.started # None
    /\ \A k \in 1..Len(run.log) :
         IF run.log[k].op = "EvalSet"
         THEN /\ run.log[k].by = "build"
              /\ run.log[k].key \notin DOMAIN run.cache0
              /\ \A m \in 1..(k - 1) :
                   run.log[m].op = "EvalSet" => run.log[m].key # run.log[k].key
         ELSE /\ run.started # None
              /\ \A n \in 1..Len(run.log[k].handles) :
                   LET h == run.log[k].handles[n] IN
                   /\ <<h.test_set, h.lang>> \in DOMAIN run.started.v
                   /\ run.started.v[<<h.test_set, h.lang>>] = h

\* A second Run that found one pair in the cache, loaded another and ran both
\* of its tasks.
C7_Witness ==
  /\ pc = "returned" /\ run.n = 2 /\ run.phase = "done"
  /\ Len(tasks) = 2
  /\ DOMAIN run.cache0 # {}
  /\ Cardinality(Referenced) = 2
  /\ \E k \in 1..Len(run.log) : run.log[k].op = "EvalSet"
  /\ \E k \in 1..Len(run.log) : run.log[k].op = "CompareMetrics"

\* C10: once a call of the backend has raised, during loading or during a
\* task, Run has raised that error and returned nothing: the failed call is
\* the last call Run made (no retry, no fallback), and only a Run in which no
\* call failed returns a TaskSetResults, which holds one result per task.
C10_FailureLeavesRun ==
  pc \in {"running", "returned"} =>
    /\ (\E k \in 1..Len(run.log) : ~run.log[k].ok) =>
         /\ pc = "returned" /\ run.phase = "raised"
         /\ run.ret = Raise("BackendError")
         /\ \A k \in 1..Len(run.log) : ~run.log[k].ok => k = Len(run.log)
    /\ run.phase = "raised" => (run.ret # None /\ ~run.ret.ok)
    /\ (run.ret # None /\ run.ret.ok) =>
         /\ run.phase = "done"
         /\ Len(run.ret.v) = Len(tasks)
         /\ \A k \in 1..Len(run.log) : run.log[k].ok

\* A Run whose second task failed in the backend after its first task had
\* produced a result.
C10_Witness ==
  /\ pc = "returned" /\ run.phase = "raised"
  /\ Len(run.out) = 1
  /\ run.ret = Raise("BackendError")
  /\ run.log[Len(run.log)].op = "CompareMetrics"

(***************************************************************************)
(* TaskResults accessors and TaskSetResults.  Weights and average ranks    *)
(* are rationals <<numerator, denominator>> in lowest terms.               *)
(***************************************************************************)
RECURSIVE Gcd(_, _)
Gcd(a, b) == IF b = 0 THEN a ELSE Gcd(b, a % b)

Rat(n, d) == LET g == Gcd(IF n < 0 THEN -n ELSE n, d) IN <<n \div g, d \div g>>
RatAdd(a, b) == Rat(a[1] * b[2] + b[1] * a[2], a[2] * b[2])
RatMul(a, b) == Rat(a[1] * b[1], a[2] * b[2])
\* a / n for a positive int n
RatDiv(a, n) == Rat(a[1], a[2] * n)
RatLt(a, b) == a[1] * b[2] < b[1] * a[2]

\* [F(x) for x in xs]: the list of the values, each computed once when the
\* list is built.
Map(xs, F(_)) == [i \in 1..Len(xs) |-> F(xs[i])] \o <<>>

\* The positions 1..Len(xs) of a list, in order.
Indices(xs) == [i \in 1..Len(xs) |-> i]

\* zip(a, b): the pairs up to the end of the shorter list
Zip(a, b) ==
  Map(Indices(IF Len(a) < Len(b) THEN a ELSE b), LAMBDA i : <<a[i], b[i]>>)

\* sum(list): 0 + list[1] + ... + list[n]
RECURSIVE sum(_)
sum(list) ==
  IF list = <<>> THEN Rat(0, 1)
  ELSE RatAdd(sum(SubSeq(list, 1, Len(list) - 1)), list[Len(list)])

\* The keys of the dict a sequence of assignments d[key] = value builds, given
\* as <<key, value>> pairs: each key at the place of its first assignment.
Keys(pairs) ==
  Map(SelectSeq(Indices(pairs),
                LAMBDA i : \A j \in 1..(i - 1) : pairs[j][1] # pairs[i][1]),
      LAMBDA i : pairs[i][1])

\* d[key] of that dict: the value of the last assignment to the key.
Lookup(pairs, key) ==
  pairs[CHOOSE i \in 1..Len(pairs) :
          /\ pairs[i][1] = key
          /\ \A j \in (i + 1)..Len(pairs) : pairs[j][1] # key][2]

\* list(d.values()) of that dict
Values(pairs) == Map(Keys(pairs), LAMBDA key : Lookup(pairs, key))

\* dict(pieces) for a sequence of lists: raises ValueError for a piece that
\* is not of length two.
dict(pieces) ==
  IF \E i \in 1..Len(pieces) : Len(pieces[i]) # 2 THEN Raise("ValueError")
  ELSE Return(pieces)

\* d[key] for the outcome d of dict(): KeyError for a missing key.
GetItem(d, key) ==
  IF ~d.ok THEN d
  ELSE IF \A i \in 1..Len(d.v) : d.v[i][1] # key THEN Raise("KeyError")
  ELSE Return(Lookup(d.v, key))

\* TaskResults.attr_vals: dict(av.split('=') for av in self.name.split())
attr_vals(self) ==
  dict(Map(SplitWhitespace(self.name), LAMBDA av : Split(av, "=")))

\* result.attr_vals[attr]
AttrVal(self, attr) == GetItem(attr_vals(self), attr)

\* TaskResults.metrics
metrics(self) == Map(self.corr_ranks.v, LAMBDA item : item[1])

\* TaskResults.Rank(metric) for a metric name
Rank(self, metric) == Lookup(self.corr_ranks.v, metric).v[2].v

\* TaskSetResults.__add__
TaskSetResultsAdd(self, oth) == self \o oth

\* The loop of SplitByAttr over the results and the outcomes vals of their
\* attr_vals[attr]: the first exception, or the dict from value to subset as
\* the sequence of its <<value, results>> items.
Subsets(self, vals) ==
  IF \E i \in 1..Len(vals) : ~vals[i].ok
  THEN vals[CHOOSE i \in 1..Len(vals) :
              ~vals[i].ok /\ \A j \in 1..(i - 1) : vals[j].ok]
  ELSE Return(Map(Keys(Map(vals, LAMBDA val : <<val.v, val.v>>)),
                  LAMBDA key :
                    <<key, Map(SelectSeq(Indices(self),
                                         LAMBDA i : vals[i].v = key),
                               LAMBDA i : self[i])>>))

\* TaskSetResults.SplitByAttr(attr)
SplitByAttr(self, attr) ==
  Subsets(self, Map(self, LAMBDA result : AttrVal(result, attr)))

\* The weights dict of AssignWeights after its loop over the subsets, given
\* the outcomes sub of the recursive calls: the first exception, or the
\* values of the dict that weights = {r.name: 0 for r in self.results} and
\* then weights[r.name] = w for r, w in zip(subset.results, subweights)
\* build.
WeightsOfSubsets(self, subsets, sub) ==
  IF \E k \in 1..Len(sub) : ~sub[k].ok
  THEN sub[CHOOSE k \in 1..Len(sub) :
             ~sub[k].ok /\ \A j \in 1..(k - 1) : sub[j].ok]
  ELSE Return(Values(
         Map(self, LAMBDA r : <<r.name, Rat(0, 1)>>) \o
         Join(Map(Indices(subsets),
                  LAMBDA k : Map(Zip(subsets[k][2], sub[k].v),
                                 LAMBDA rw : <<rw[1].name, rw[2]>>)),
              <<>>)))

\* TaskSetResults.AssignWeights(attrs, total_wt); OverSubsets is its part
\* after the call of SplitByAttr.
RECURSIVE AssignWeights(_, _, _)
OverSubsets(self, split, attrs, total_wt) ==
  IF ~split.ok THEN split
  ELSE WeightsOfSubsets(self, split.v,
         Map(split.v,
             LAMBDA item : AssignWeights(item[2], Tail(attrs),
                                         RatDiv(total_wt, Len(split.v)))))

AssignWeights(self, attrs, total_wt) ==
  IF attrs = <<>>
  THEN IF Len(self) = 0 THEN Raise("ZeroDivisionError")
       ELSE Return(Map(self, LAMBDA r : RatDiv(total_wt, Len(self))))
  ELSE OverSubsets(self, SplitByAttr(self, attrs[1]), attrs, total_wt)

\* One step of the stable sort of <<metric, value>> items by value.
RECURSIVE InsertByValue(_, _)
InsertByValue(sorted, item) ==
  IF sorted = <<>> THEN <<item>>
  ELSE IF RatLt(item[2], sorted[1][2]) THEN <<item>> \o sorted
  ELSE <<sorted[1]>> \o InsertByValue(Tail(sorted), item)

\* sorted(items, key=lambda x: x[1]): stable, items of equal value keep
\* their order.
RECURSIVE SortedByValue(_)
SortedByValue(items) ==
  IF items = <<>> THEN <<>>
  ELSE InsertByValue(SortedByValue(SubSeq(items, 1, Len(items) - 1)),
                     items[Len(items)])

\* res.Rank(metric) * weight
RankUnweighted(rank, weight) == Rat(rank, 1)
RankTimesWeight(rank, weight) == RatMul(Rat(rank, 1), weight)

\* ranks[m] of AverageRanks for the <<metric, weighted rank>> pairs appended
\* in loop order
RanksOf(appended, m) ==
  Map(SelectSeq(appended, LAMBDA item : item[1] = m), LAMBDA item : item[2])

\* The end of AverageRanks: the metrics with one weighted rank per result of
\* self, each with the sum of its weighted ranks, sorted by that sum.
SummedRanks(self, appended) ==
  SortedByValue(
    Map(SelectSeq(Keys(appended),
                  LAMBDA m : Len(RanksOf(appended, m)) = Len(self)),
        LAMBDA m : <<m, sum(RanksOf(appended, m))>>))

\* The loop of AverageRanks over zip(self.results, weights) for a list of
\* weights, and its end.
WeightedRanks(self, weights) ==
  SummedRanks(self,
    Join(Map(Zip(self, weights),
             LAMBDA rw : Map(metrics(rw[1]),
                             LAMBDA metric :
                               <<metric, RankTimesWeight(Rank(rw[1], metric),
                                                         rw[2])>>)),
         <<>>))

\* TaskSetResults.AverageRanks(weights): weights is None or a list.  The dict
\* returned, as the sequence of its <<metric, average rank>> items.
AverageRanks(self, weights) ==
  IF weights = None
  THEN IF Len(self) = 0 THEN Raise("ZeroDivisionError")
       ELSE Return(WeightedRanks(self, Map(self, LAMBDA r : Rat(1, Len(self)))))
  ELSE Return(WeightedRanks(self, weights.v))

(***************************************************************************)
(* Scenario "Results": a TaskSetResults is built from the results of Tasks *)
(* with Append and +, then one of its methods is called.  tasks holds the  *)
(* Task that produced each result.                                         *)
(***************************************************************************)
MaxResults == 3

\* A second outcome of data.CompareMetrics: the same metrics, tied ranks.
TiedResults ==
  <<PyDict(<< <<PyStr(In.chrF), PyTuple(<<PyFloat(0, <<"9">>), PyInt(1)>>)>>,
              <<PyStr(In.BLEU), PyTuple(<<PyFloat(0, <<"8">>), PyInt(1)>>)>> >>),
    CompareMetricsResults[2]>>

\* A third outcome: another set of metrics.
OtherMetricsResults ==
  <<PyDict(<< <<PyStr(In.COMET), PyTuple(<<PyFloat(0, <<"9">>), PyInt(1)>>)>>,
              <<PyStr(In.BLEU), PyTuple(<<PyFloat(0, <<"7">>), PyInt(3)>>)>> >>),
    CompareMetricsResults[2]>>

TaskWith(lang, level, domain) ==
  __post_init__([TaskDefaults EXCEPT !.lang = PyStr(lang),
                                     !.level = PyStr(level),
                                     !.domain = domain]).v

\* A Task and the result of its Run
TaskRun(task_, compare_metrics_results) ==
  <<task_, TaskResults(task_, compare_metrics_results)>>

\* The Tasks whose results are collected, each with its result.
TaskRuns ==
  {TaskRun(TaskWith(Lit.en_de, Lit.sys, None), CompareMetricsResults),
   TaskRun(TaskWith(Lit.en_de, In.seg, None), TiedResults),
   TaskRun(TaskWith(In.zh_en, Lit.sys, None), CompareMetricsResults),
   TaskRun(TaskWith(In.zh_en, In.seg, PyStr(In.news)), OtherMetricsResults),
   TaskRun(TaskWith(Lit.en_de, Lit.sys, PyStr(In.a_eq_b)), CompareMetricsResults)}

\* The attribute lists and total weights AssignWeights is called with.
AttrLists ==
  {<<>>, <<AttrChars.lang>>, <<AttrChars.level>>,
   <<AttrChars.lang, AttrChars.level>>, <<AttrChars.level, AttrChars.lang>>,
   <<AttrChars.domain, AttrChars.lang>>}
TotalWeights == {Rat(1, 1), Rat(3, 1)}

ResultsInit ==
  /\ pc = "collect"
  /\ results = <<>>
  /\ tasks = <<>>
  /\ call = [op |-> "none"]
  /\ args = Unused /\ task = Unused /\ args2 = Unused /\ task2 = Unused
  /\ attr_combs = Unused /\ eval_set_dict = Unused
  /\ run = Unused /\ other = Unused /\ file = Unused

\* results.Append(result)
ResultsAppend ==
  /\ pc = "collect"
  /\ Len(results) < MaxResults
  /\ \E tr \in TaskRuns :
       /\ results' = Append(results, tr[2])
       /\ tasks' = Append(tasks, tr[1])
  /\ UNCHANGED <<pc, args, task, args2, task2, attr_combs, eval_set_dict, run,
                 other, call, file>>

\* results = results + results
ResultsAddSelf ==
  /\ pc = "collect"
  /\ results # <<>>
  /\ 2 * Len(results) <= MaxResults
  /\ results' = TaskSetResultsAdd(results, results)
  /\ tasks' = tasks \o tasks
  /\ UNCHANGED <<pc, args, task, args2, task2, attr_combs, eval_set_dict, run,
                 other, call, file>>

\* results.SplitByAttr(attr)
CallSplitByAttr ==
  /\ pc = "collect"
  /\ \E i \in 1..Len(Attributes) :
       call' = [op |-> "SplitByAttr", attr |-> Attributes[i],
                ret |-> SplitByAttr(results, AttrChars[Attributes[i]])]
  /\ pc' = "called"
  /\ UNCHANGED <<args, task, args2, task2, attr_combs, tasks, eval_set_dict,
                 run, results, other, file>>

\* results.AssignWeights(attrs, total_wt)
CallAssignWeights ==
  /\ pc = "collect"
  /\ \E attrs \in AttrLists, total_wt \in TotalWeights :
       call' = [op |-> "AssignWeights", attrs |-> attrs, total_wt |-> total_wt,
                ret |-> AssignWeights(results, attrs, total_wt)]
  /\ pc' = "called"
  /\ UNCHANGED <<args, task, args2, task2, attr_combs, tasks, eval_set_dict,
                 run, results, other, file>>

\* results.AverageRanks()
CallAverageRanks ==
  /\ pc = "collect"
  /\ call' = [op |-> "AverageRanks", weights |-> None,
              ret |-> AverageRanks(results, None)]
  /\ pc' = "called"
  /\ UNCHANGED <<args, task, args2, task2, attr_combs, tasks, eval_set_dict,
                 run, results, other, file>>

\* results.AverageRanks(results.AssignWeights(attrs))
CallAverageRanksWeighted ==
  /\ pc = "collect"
  /\ \E attrs \in AttrLists :
       \E w \in {AssignWeights(results, attrs, Rat(1, 1))} :
         /\ w.ok
         /\ call' = [op |-> "AverageRanks", weights |-> PyList(w.v),
                     ret |-> AverageRanks(results, PyList(w.v))]
  /\ pc' = "called"
  /\ UNCHANGED <<args, task, args2, task2, attr_combs, tasks, eval_set_dict,
                 run, results, other, file>>

ResultsNext ==
  \/ ResultsAppend \/ ResultsAddSelf \/ CallSplitByAttr \/ CallAssignWeights
  \/ CallAverageRanks \/ CallAverageRanksWeighted

SpecResults == ResultsInit /\ [][ResultsNext]_vars

\* The call that has returned
Called(op) == pc = "called" /\ call.op = op

\* C1: whenever AssignWeights(attrs, W) has returned a list for a set of at
\* least one result, the weights of the list sum to W.
C1_WeightsSumToTotal ==
  (Called("AssignWeights") /\ Len(results) >= 1 /\ call.ret.ok) =>
    sum(call.ret.v) = call.total_wt

\* The metrics of a result, read from its rank mapping
MetricsOf(r) == {r.corr_ranks.v[i][1] : i \in 1..Len(r.corr_ranks.v)}

\* The keys of a mapping given as its items
KeySet(items) == {items[k][1] : k \in 1..Len(items)}

\* C2: the mapping AverageRanks has returned for a set of at least one
\* result, with weights omitted or supplied, contains a metric if and only if
\* the metric appears in every result; when all results have the same metric
\* list, its keys are the metrics of that list.
C2_MetricsOfEveryResult ==
  (Called("AverageRanks") /\ Len(results) >= 1 /\ call.ret.ok) =>
    /\ KeySet(call.ret.v) =
         {m \in MetricsOf(results[1]) :
            \A i \in 1..Len(results) : m \in MetricsOf(results[i])}
    /\ (\A i \in 1..Len(results) : metrics(results[i]) = metrics(results[1]))
         => KeySet(call.ret.v) = MetricsOf(results[1])

\* The results, in order, of the Tasks whose attribute attr has the text val
ResultsWhere(attr, val) ==
  LET at == SelectSeq([i \in 1..Len(results) |-> i],
                      LAMBDA i : StrVal(tasks[i], attr) = val)
  IN [n \in 1..Len(at) |-> results[at[n]]]

\* C8: SplitByAttr(a) returns a partition of the results: its keys are
\* pairwise different and are the texts StrVal gives for attribute a of the
\* Tasks that produced the results, and the group of a key holds, in their
\* original order, the results of the Tasks with that text.
C8_SplitIsPartitionByStrVal ==
  Called("SplitByAttr") =>
    /\ call.ret.ok
    /\ \A k, l \in 1..Len(call.ret.v) :
         call.ret.v[k][1] = call.ret.v[l][1] => k = l
    /\ KeySet(call.ret.v) =
         {StrVal(tasks[i], call.attr) : i \in 1..Len(results)}
    /\ \A k \in 1..Len(call.ret.v) :
         call.ret.v[k][2] = ResultsWhere(call.attr, call.ret.v[k][1])

\* weight_i of a call of AverageRanks
WeightOf(i) ==
  IF call.weights = None THEN Rat(1, Len(results)) ELSE call.weights.v[i]

\* The rank of metric m in result i, read from its rank mapping
RankIn(i, m) ==
  LET items == results[i].corr_ranks.v
  IN items[CHOOSE k \in 1..Len(items) : items[k][1] = m][2].v[2].v

\* weight_1 * rank_1 + ... + weight_n * rank_n for metric m
RECURSIVE WeightedRankSum(_, _)
WeightedRankSum(m, n) ==
  IF n = 0 THEN Rat(0, 1)
  ELSE RatAdd(WeightedRankSum(m, n - 1),
              RatMul(WeightOf(n), Rat(RankIn(n, m), 1)))

\* C9: every value of the mapping AverageRanks has returned is the sum over
\* all results of weight_i * rank of the metric in result i, weight_i being
\* 1/count when no weights are supplied, and the entries of the mapping are
\* in ascending order of value.
C9_WeightedSumAscending ==
  (Called("AverageRanks") /\ call.ret.ok) =>
    /\ \A k \in 1..Len(call.ret.v) :
         call.ret.v[k][2] = WeightedRankSum(call.ret.v[k][1], Len(results))
    /\ \A k \in 1..(Len(call.ret.v) - 1) :
         ~RatLt(call.ret.v[k + 1][2], call.ret.v[k][2])

\* AverageRanks has returned two metrics of different average rank for
\* three results with supplied weights that are not all equal.
C9_Witness ==
  /\ Called("AverageRanks") /\ call.ret.ok
  /\ call.weights # None
  /\ Len(results) = 3
  /\ \E i, j \in 1..Len(call.weights.v) : call.weights.v[i] # call.weights.v[j]
  /\ Len(call.ret.v) = 2
  /\ RatLt(call.ret.v[1][2], call.ret.v[2][2])

\* The Task field whose name is the text attr
FieldNamed(attr) == CHOOSE a \in DOMAIN AttrChars : AttrChars[a] = attr

\* The results that share with result i the values of the first l attributes
\* of attrs: the subset result i is in after l levels of the hierarchy
SubsetAt(i, attrs, l) ==
  {j \in 1..Len(results) :
     \A k \in 1..l : StrVal(tasks[j], FieldNamed(attrs[k]))
                     = StrVal(tasks[i], FieldNamed(attrs[k]))}

\* The number of groups that subset splits into on the next attribute
GroupsAt(i, attrs, l) ==
  Cardinality({StrVal(tasks[j], FieldNamed(attrs[l + 1])) :
                 j \in SubsetAt(i, attrs, l)})

\* W multiplied by 1/(number of groups) at each of the levels 1..l
RECURSIVE ShareAt(_, _, _, _)
ShareAt(i, attrs, W, l) ==
  IF l = 0 THEN W
  ELSE RatDiv(ShareAt(i, attrs, W, l - 1), GroupsAt(i, attrs, l - 1))

\* The single-pass weight of result i
SinglePassWeight(i, attrs, W) ==
  RatDiv(ShareAt(i, attrs, W, Len(attrs)),
         Cardinality(SubsetAt(i, attrs, Len(attrs))))

\* C11: the list AssignWeights(attrs, W) has returned has one entry per
\* result, in the order of the results, and its i-th entry is the single-pass
\* weight of result i: W multiplied by 1/(number of groups) at each level of
\* the attribute hierarchy and by 1/(number of results in the leaf group).
C11_RecursiveIsSinglePass ==
  (Called("AssignWeights") /\ call.ret.ok) =>
    /\ Len(call.ret.v) = Len(results)
    /\ \A i \in 1..Len(results) :
         call.ret.v[i] = SinglePassWeight(i, call.attrs, call.total_wt)

(***************************************************************************)
(* TaskResults.Write, TaskResults.Read and TaskResults.__eq__.  A JSON     *)
(* document is the tree of its arrays and objects, with the text of each   *)
(* number and string at the leaves.                                        *)
(***************************************************************************)
\* The text of a JSON string: quoted, with " and \ escaped.  For every
\* character of s there is a slot <<i, 1>> for a backslash before it, kept
\* when the character needs one, and a slot <<i, 0>> for the character.
JsonEscape(s) ==
  Map(SelectSeq([k \in 1..(2 * Len(s)) |-> <<(k + 1) \div 2, k % 2>>],
                LAMBDA slot : slot[2] = 0 \/ s[slot[1]] \in {"\"", "\\"}),
      LAMBDA slot : IF slot[2] = 1 THEN "\\" ELSE s[slot[1]])

\* The number of backslashes that end right before position i of s
BackslashesBefore(s, i) ==
  IF \A j \in 1..(i - 1) : s[j] = "\\" THEN i - 1
  ELSE i - 1 - (CHOOSE j \in 1..(i - 1) :
                  s[j] # "\\" /\ \A l \in (j + 1)..(i - 1) : s[l] = "\\")

\* The string of a JSON string's text between the quotes: a backslash after
\* an even number of backslashes escapes the next character and is dropped.
JsonUnescape(s) ==
  Map(SelectSeq(Indices(s),
                LAMBDA i : s[i] # "\\" \/ BackslashesBefore(s, i) % 2 = 1),
      LAMBDA i : s[i])

\* int(digits)
RECURSIVE ParseInt(_)
ParseInt(digits) ==
  IF digits = <<>> THEN 0
  ELSE 10 * ParseInt(SubSeq(digits, 1, Len(digits) - 1))
       + (ord(digits[Len(digits)]) - ord("0"))

\* json.dump(v): numbers are written as repr() gives them, tuples and lists
\* as arrays, dicts with str keys as objects.
RECURSIVE JsonDump(_)
JsonDump(v) ==
  CASE v.t = "str" ->
         [j |-> "string", text |-> <<"\"">> \o JsonEscape(v.v) \o <<"\"">>]
    [] v.t \in {"int", "float"} -> [j |-> "number", text |-> Repr(v)]
    [] v.t \in {"list", "tuple"} -> [j |-> "array", v |-> Map(v.v, JsonDump)]
    [] v.t = "dict" ->
         [j |-> "object",
          v |-> Map(v.v, LAMBDA item : <<JsonDump(item[1]), JsonDump(item[2])>>)]

\* json.load(doc): arrays become lists, objects dicts, a number with a
\* fraction a float and one without an int.
RECURSIVE JsonLoad(_)
JsonLoad(doc) ==
  CASE doc.j = "string" ->
         PyStr(JsonUnescape(SubSeq(doc.text, 2, Len(doc.text) - 1)))
    [] doc.j = "number" ->
         IF \E i \in 1..Len(doc.text) : doc.text[i] = "."
         THEN PyFloat(ParseInt(Split(doc.text, ".")[1]), Split(doc.text, ".")[2])
         ELSE PyInt(ParseInt(doc.text))
    [] doc.j = "array" -> PyList(Map(doc.v, JsonLoad))
    [] doc.j = "object" ->
         PyDict(Map(doc.v, LAMBDA m : <<JsonLoad(m[1]), JsonLoad(m[2])>>))

\* ndarray.tolist() of a matrix, and of the empty array
tolist(matrix) == PyList(Map(matrix.v, LAMBDA row : PyList(row)))

\* np.asarray(rows) of a list of lists of numbers, and of the empty list
asarray(rows) == NdArray(Map(rows.v, LAMBDA row : row.v))

\* np.array_equal(a1, a2): the same shape and the same elements
array_equal(a1, a2) == a1.v = a2.v

\* TaskResults(): the branch of __init__ for no task
EmptyTaskResults ==
  [name |-> <<>>, pval |-> PyInt(0), corr_ranks |-> PyDict(<<>>),
   matrix |-> NdArray(<<>>)]

\* TaskResults.Write(file): the document left in the file
Write(self) ==
  JsonDump(PyTuple(<<PyStr(self.name), self.pval, self.corr_ranks,
                     tolist(self.matrix)>>))

\* The assignments of Read to self, for the list elems that json.load gave
ReadFields(self, elems) ==
  [self EXCEPT !.name = elems[1].v, !.pval = elems[2],
               !.corr_ranks = elems[3], !.matrix = asarray(elems[4])]

\* TaskResults.Read(file), called on self: self after the call
Read(self, doc) == ReadFields(self, JsonLoad(doc).v)

\* d1 == d2 for dicts: the same keys with equal values, in any order.  The
\* values are equal when they are of the same type and hold equal elements:
\* a tuple is not equal to a list.
DictEq(d1, d2) ==
  /\ {d1.v[i][1] : i \in 1..Len(d1.v)} = {d2.v[i][1] : i \in 1..Len(d2.v)}
  /\ \A i \in 1..Len(d1.v) : Lookup(d2.v, d1.v[i][1]) = Lookup(d1.v, d1.v[i][1])

\* TaskResults.__eq__
TaskResultsEq(self, oth) ==
  /\ self.name = oth.name
  /\ self.pval = oth.pval
  /\ DictEq(self.corr_ranks, oth.corr_ranks)
  /\ array_equal(self.matrix, oth.matrix)

(***************************************************************************)
(* Scenario "IO": a TaskResults is written to a file, the file is read     *)
(* into a fresh TaskResults, and the two are compared.  The TaskResults    *)
(* written is results[1], the one read is other; what was read may be      *)
(* written in its turn.                                                    *)
(***************************************************************************)
\* The TaskResults that Task.Run constructs, and the empty one.
Constructed ==
  {TaskResults(tr[1], outcome) :
     tr \in TaskRuns,
     outcome \in {CompareMetricsResults, TiedResults, OtherMetricsResults}}
  \cup {EmptyTaskResults}

IOInit ==
  /\ pc = "new"
  /\ results = <<>>
  /\ args = Unused /\ task = Unused /\ args2 = Unused /\ task2 = Unused
  /\ attr_combs = Unused /\ tasks = Unused /\ eval_set_dict = Unused
  /\ run = Unused /\ other = Unused /\ call = Unused /\ file = Unused

\* r = TaskResults(task, compare_metrics_results), or r = TaskResults()
IOConstruct ==
  /\ pc = "new"
  /\ \E r \in Constructed : results' = <<r>>
  /\ pc' = "constructed"
  /\ UNCHANGED <<args, task, args2, task2, attr_combs, tasks, eval_set_dict,
                 run, other, call, file>>

\* r.Write(file)
IOWrite ==
  /\ pc = "constructed"
  /\ file' = Write(results[1])
  /\ pc' = "written"
  /\ UNCHANGED <<args, task, args2, task2, attr_combs, tasks, eval_set_dict,
                 run, results, other, call>>

\* other = TaskResults().Read(file)
IORead ==
  /\ pc = "written"
  /\ other' = Read(EmptyTaskResults, file)
  /\ pc' = "read"
  /\ UNCHANGED <<args, task, args2, task2, attr_combs, tasks, eval_set_dict,
                 run, results, call, file>>

\* r == other
IOCompare ==
  /\ pc = "read"
  /\ call' = [op |-> "__eq__", ret |-> TaskResultsEq(results[1], other)]
  /\ pc' = "compared"
  /\ UNCHANGED <<args, task, args2, task2, attr_combs, tasks, eval_set_dict,
                 run, results, other, file>>

\* r = other: what was read is the next TaskResults to write
IOAgain ==
  /\ pc = "compared"
  /\ results' = <<other>>
  /\ pc' = "constructed"
  /\ UNCHANGED <<args, task, args2, task2, attr_combs, tasks, eval_set_dict,
                 run, other, call, file>>

IONext == IOConstruct \/ IOWrite \/ IORead \/ IOCompare \/ IOAgain

SpecIO == IOInit /\ [][IONext]_vars

\* C6: a TaskResults that was written with Write and read back with Read
\* into a fresh TaskResults is equal, under __eq__, to what Read returned.
C6_ReadGivesBackWhatWasWritten ==
  pc = "compared" => call.ret

====
